---- MODULE Spec2Model ----
(***************************************************************************)
(* Model of stm::device::AbstractDevice (src/src/device/AbstractDevice.cpp) *)
(* the device orchestrator of the Teseo HAL: it borrows a stream and a     *)
(* decoder, routes the stream's byte-arrival signal to the decoder, drives *)
(* both on start/stop commands, holds the in-progress Location and         *)
(* republishes locations and NMEA sentences upstream.                      *)
(*                                                                         *)
(* start() and stop() are modelled statement by statement (one action per  *)
(* external call, sequenced by pc); every other method is one action.      *)
(***************************************************************************)
EXTENDS Integers, Sequences, FiniteSets, TLC

\* ---------------------------------------------------------------- bounds
MaxWake == 2
MaxSlots == 2
MaxVal == 1
MaxTime == 2

\* ---------------------------------------------------------------- values
Null == "null"
Streams == {"s1"}
Decoders == {"d1", "d2"}
Nmeas == {"n1", "n2"}
Vals == 1..MaxVal
Times == 1..MaxTime
NoTime == -1
NoRet == "none"
Success == 0

VARIABLES
    stream,      \* AbstractDevice::stream  (Null or a stream)
    decoder,     \* AbstractDevice::decoder (Null or a decoder)
    timestamp,   \* AbstractDevice::timestamp
    location,    \* AbstractDevice::location
    reading,     \* per stream: IStream is reading
    started,     \* per decoder: IDecoder is started
    slots,       \* per stream: slot list of IStream::onNewBytes
    wakeCount,   \* wake lock acquisitions minus releases
    pc,          \* position of the command thread inside start()/stop()
    ret,         \* value returned by the last finished command
    trace,       \* external calls issued by the current/last command
    cmdFrom,     \* lifecycle state in which the current/last command began
    lastOp,      \* name of the most recent operation
    lastArg,     \* argument of the most recent operation
    lastTs,      \* argument of the most recent setTimestamp, or NoTime
    nmeaOut,     \* calls of gps::sendNmea made by the last operation
    locOut,      \* calls of gps::sendLocationUpdate made by the last operation
    rx,          \* per decoder: onNewBytes calls made by the last delivery
    rpc          \* position of the reader thread: "idle" or inside onNewBytes

vars == <<stream, decoder, timestamp, location, reading, started, slots,
          wakeCount, pc, ret, trace, cmdFrom, lastOp, lastArg, lastTs,
          nmeaOut, locOut, rx, rpc>>

devVars == <<stream, decoder, reading, started, slots, wakeCount>>
cmdVars == <<pc, ret, trace, cmdFrom>>
fixVars == <<timestamp, location, lastTs>>
outVars == <<nmeaOut, locOut, rx, rpc>>

\* ------------------------------------------------------------- Location
\* Location::Location(): every field invalid, values at their default.
NewLocation ==
    [latitude |-> 0, longitude |-> 0, hasLatLong |-> FALSE,
     altitude |-> 0, hasAltitude |-> FALSE,
     speed |-> 0, hasSpeed |-> FALSE,
     bearing |-> 0, hasBearing |-> FALSE,
     accuracy |-> 0, hasAccuracy |-> FALSE,
     timestamp |-> 0]

locationValidity(l) == l.hasLatLong

Loc_latitude(l, v) == [l EXCEPT !.latitude = v, !.hasLatLong = TRUE]
Loc_longitude(l, v) == [l EXCEPT !.longitude = v, !.hasLatLong = TRUE]
Loc_altitude(l, v) == [l EXCEPT !.altitude = v, !.hasAltitude = TRUE]
Loc_speed(l, v) == [l EXCEPT !.speed = v, !.hasSpeed = TRUE]
Loc_bearing(l, v) == [l EXCEPT !.bearing = v, !.hasBearing = TRUE]
Loc_accuracy(l, v) == [l EXCEPT !.accuracy = v, !.hasAccuracy = TRUE]
Loc_timestamp(l, t) == [l EXCEPT !.timestamp = t]

Loc_invalidateLocation(l) == [l EXCEPT !.hasLatLong = FALSE]
Loc_invalidateAltitude(l) == [l EXCEPT !.hasAltitude = FALSE]
Loc_invalidateSpeed(l) == [l EXCEPT !.hasSpeed = FALSE]
Loc_invalidateBearing(l) == [l EXCEPT !.hasBearing = FALSE]
Loc_invalidateAccuracy(l) == [l EXCEPT !.hasAccuracy = FALSE]

\* --------------------------------------------------------------- signals
\* Signal::connect appends a slot; Signal::operator() calls every slot once,
\* in connection order, with the published argument.
Connect(slotList, slot) == Append(slotList, slot)
Publish(slotList, arg) == [i \in 1..Len(slotList) |-> arg]

\* Slots the constructor connects to AbstractDevice::onNmea / locationUpdate.
OnNmeaSlots == Connect(<<>>, "sendNmea")
\* Variant: the constructor connects sendLocationUpdate twice.
LocationUpdateSlots_twice ==
    Connect(Connect(<<>>, "sendLocationUpdate"), "sendLocationUpdate")
LocationUpdateSlots == Connect(<<>>, "sendLocationUpdate")

RECURSIVE CountIn(_, _)
CountIn(s, x) ==
    IF s = <<>> THEN 0
    ELSE (IF Head(s) = x THEN 1 ELSE 0) + CountIn(Tail(s), x)

RECURSIVE SumLen(_, _)
SumLen(f, S) ==
    IF S = {} THEN 0
    ELSE LET x == CHOOSE y \in S : TRUE IN Len(f[x]) + SumLen(f, S \ {x})

TotalSlots == SumLen(slots, Streams)

\* ------------------------------------------------------ lifecycle states
Navigating ==
    /\ stream # Null /\ decoder # Null
    /\ reading[stream] /\ started[decoder]

Idle ==
    /\ stream # Null => ~reading[stream]
    /\ decoder # Null => ~started[decoder]

LifeState == IF Navigating THEN "Navigating" ELSE IF Idle THEN "Idle" ELSE "Other"

\* ------------------------------------------------------------------ Init
Init ==
    /\ stream = Null
    /\ decoder = Null
    /\ timestamp \in 0..MaxTime
    /\ location = NewLocation
    /\ reading = [s \in Streams |-> FALSE]
    /\ started = [d \in Decoders |-> FALSE]
    /\ slots = [s \in Streams |-> <<>>]
    /\ wakeCount = 0
    /\ pc = "ready"
    /\ ret = NoRet
    /\ trace = <<>>
    /\ cmdFrom = "Idle"
    /\ lastOp = "none"
    /\ lastArg = Null
    /\ lastTs = NoTime
    /\ nmeaOut = <<>>
    /\ locOut = <<>>
    /\ rx = [d \in Decoders |-> 0]
    /\ rpc = "idle"

\* Bookkeeping shared by the single-step operations.
Op(name, arg) ==
    /\ pc = "ready"
    /\ lastOp' = name
    /\ lastArg' = arg

NoOutput ==
    /\ nmeaOut' = <<>> /\ locOut' = <<>> /\ rx' = [d \in Decoders |-> 0]
    /\ rpc' = rpc

\* ------------------------------------------------ wiring (lines 26 - 61)
\* Variant: the decoder null check is missing.
connectStreamToDecoder_noDecoderCheck ==
    /\ Op("connectStreamToDecoder", Null)
    /\ TotalSlots < MaxSlots
    /\ IF stream = Null THEN UNCHANGED slots
       ELSE slots' = [slots EXCEPT ![stream] = Connect(@, decoder)]
    /\ NoOutput
    /\ UNCHANGED <<stream, decoder, reading, started, wakeCount>>
    /\ UNCHANGED <<cmdVars, fixVars>>

connectStreamToDecoder ==
    /\ Op("connectStreamToDecoder", Null)
    /\ TotalSlots < MaxSlots
    /\ IF stream = Null THEN UNCHANGED slots
       ELSE IF decoder = Null THEN UNCHANGED slots
       ELSE slots' = [slots EXCEPT ![stream] = Connect(@, decoder)]
    /\ NoOutput
    /\ UNCHANGED <<stream, decoder, reading, started, wakeCount>>
    /\ UNCHANGED <<cmdVars, fixVars>>

setStream(s) ==
    /\ Op("setStream", s)
    /\ stream' = s
    /\ NoOutput
    /\ UNCHANGED <<decoder, reading, started, slots, wakeCount>>
    /\ UNCHANGED <<cmdVars, fixVars>>

setDecoder(d) ==
    /\ Op("setDecoder", d)
    /\ decoder' = d
    /\ NoOutput
    /\ UNCHANGED <<stream, reading, started, slots, wakeCount>>
    /\ UNCHANGED <<cmdVars, fixVars>>

\* ------------------------------------------------- start (lines 69 - 78)
\* A call through a null stream/decoder pointer is undefined behaviour:
\* the process is killed, or the call is elided and execution goes on.
NullCall(next) == pc' = "crashed" \/ pc' = next

Start_acquireWakelock ==
    /\ pc = "ready"
    /\ wakeCount < MaxWake
    /\ lastOp' = "start" /\ lastArg' = Null
    /\ cmdFrom' = LifeState
    /\ ret' = NoRet
    /\ wakeCount' = wakeCount + 1
    /\ trace' = <<"acquireWakelock">>
    /\ pc' = "start_requestUtcTime"
    /\ NoOutput
    /\ UNCHANGED <<stream, decoder, reading, started, slots, fixVars>>

\* Variant: the UTC time request is left out.
Start_requestUtcTime_skipped ==
    /\ pc = "start_requestUtcTime"
    /\ pc' = "start_decoderStart"
    /\ UNCHANGED <<devVars, ret, trace, cmdFrom, lastOp, lastArg, fixVars, outVars>>

Start_requestUtcTime ==
    /\ pc = "start_requestUtcTime"
    /\ trace' = Append(trace, "requestUtcTime")
    /\ pc' = "start_decoderStart"
    /\ UNCHANGED <<devVars, ret, cmdFrom, lastOp, lastArg, fixVars, outVars>>

Start_decoderStart ==
    /\ pc = "start_decoderStart"
    /\ IF decoder = Null
       THEN NullCall("start_streamStartReading") /\ UNCHANGED <<started, trace>>
       ELSE /\ started' = [started EXCEPT ![decoder] = TRUE]
            /\ trace' = Append(trace, "decoderStart")
            /\ pc' = "start_streamStartReading"
    /\ UNCHANGED <<stream, decoder, reading, slots, wakeCount>>
    /\ UNCHANGED <<ret, cmdFrom, lastOp, lastArg, fixVars, outVars>>

Start_streamStartReading ==
    /\ pc = "start_streamStartReading"
    /\ IF stream = Null
       THEN NullCall("start_return") /\ UNCHANGED <<reading, trace>>
       ELSE /\ reading' = [reading EXCEPT ![stream] = TRUE]
            /\ trace' = Append(trace, "streamStartReading")
            /\ pc' = "start_return"
    /\ UNCHANGED <<stream, decoder, started, slots, wakeCount>>
    /\ UNCHANGED <<ret, cmdFrom, lastOp, lastArg, fixVars, outVars>>

Start_return ==
    /\ pc = "start_return"
    /\ ret' = Success
    /\ pc' = "ready"
    /\ UNCHANGED <<devVars, trace, cmdFrom, lastOp, lastArg, fixVars, outVars>>

\* -------------------------------------------------- stop (lines 80 - 89)
Stop_streamStopReading ==
    /\ pc = "ready"
    /\ wakeCount > -MaxWake
    /\ lastOp' = "stop" /\ lastArg' = Null
    /\ cmdFrom' = LifeState
    /\ ret' = NoRet
    /\ IF stream = Null
       THEN NullCall("stop_decoderStop") /\ trace' = <<>> /\ UNCHANGED reading
       ELSE /\ reading' = [reading EXCEPT ![stream] = FALSE]
            /\ trace' = <<"streamStopReading">>
            /\ pc' = "stop_decoderStop"
    /\ NoOutput
    /\ UNCHANGED <<stream, decoder, started, slots, wakeCount, fixVars>>

\* Variant: the decoder is left running.
Stop_decoderStop_skipped ==
    /\ pc = "stop_decoderStop"
    /\ pc' = "stop_releaseWakelock"
    /\ UNCHANGED <<devVars, ret, trace, cmdFrom, lastOp, lastArg, fixVars, outVars>>

Stop_decoderStop ==
    /\ pc = "stop_decoderStop"
    /\ IF decoder = Null
       THEN NullCall("stop_releaseWakelock") /\ UNCHANGED <<started, trace>>
       ELSE /\ started' = [started EXCEPT ![decoder] = FALSE]
            /\ trace' = Append(trace, "decoderStop")
            /\ pc' = "stop_releaseWakelock"
    /\ UNCHANGED <<stream, decoder, reading, slots, wakeCount>>
    /\ UNCHANGED <<ret, cmdFrom, lastOp, lastArg, fixVars, outVars>>

\* Variant: stop() also clears the in-progress fix.
Stop_releaseWakelock_resetFix ==
    /\ pc = "stop_releaseWakelock"
    /\ wakeCount' = wakeCount - 1
    /\ trace' = Append(trace, "releaseWakelock")
    /\ pc' = "stop_return"
    /\ location' = NewLocation
    /\ UNCHANGED <<stream, decoder, reading, started, slots>>
    /\ UNCHANGED <<ret, cmdFrom, lastOp, lastArg, timestamp, lastTs, outVars>>

Stop_releaseWakelock ==
    /\ pc = "stop_releaseWakelock"
    /\ wakeCount' = wakeCount - 1
    /\ trace' = Append(trace, "releaseWakelock")
    /\ pc' = "stop_return"
    /\ UNCHANGED <<stream, decoder, reading, started, slots>>
    /\ UNCHANGED <<ret, cmdFrom, lastOp, lastArg, fixVars, outVars>>

Stop_return ==
    /\ pc = "stop_return"
    /\ ret' = Success
    /\ pc' = "ready"
    /\ UNCHANGED <<devVars, trace, cmdFrom, lastOp, lastArg, fixVars, outVars>>

\* ------------------------------------------- byte arrival on a stream
\* IStream publishes onNewBytes while it is reading; every connected slot
\* (a decoder's onNewBytes) is called once per connection.
Deliveries(s) ==
    LET calls == Publish(slots[s], "bytes")
    IN  [d \in Decoders |-> Cardinality({i \in DOMAIN calls : slots[s][i] = d})]

deliver(s) ==
    /\ Op("deliver", s)
    /\ reading[s]
    /\ rx' = Deliveries(s)
    /\ nmeaOut' = <<>> /\ locOut' = <<>>
    /\ UNCHANGED <<devVars, cmdVars, fixVars, rpc>>

NextLife ==
    \/ connectStreamToDecoder
    \/ \E s \in Streams \cup {Null} : setStream(s)
    \/ \E d \in Decoders \cup {Null} : setDecoder(d)
    \/ Start_acquireWakelock
    \/ Start_requestUtcTime
    \/ Start_decoderStart
    \/ Start_streamStartReading
    \/ Start_return
    \/ Stop_streamStopReading
    \/ Stop_decoderStop
    \/ Stop_releaseWakelock
    \/ Stop_return
    \/ \E s \in Streams : deliver(s)

SpecLife == Init /\ [][NextLife]_vars

\* ------------------------------------------- fix assembly (lines 63 - 151)
FixOp(name, arg) ==
    /\ lastOp' = name
    /\ lastArg' = arg
    /\ UNCHANGED <<devVars, cmdVars, rx, rpc>>

Silent == nmeaOut' = <<>> /\ locOut' = <<>>

\* Variant: the validity test is missing.
update_ungated ==
    /\ FixOp("update", Null)
    /\ locOut' = Publish(LocationUpdateSlots, location)
    /\ nmeaOut' = <<>>
    /\ UNCHANGED fixVars

update ==
    /\ FixOp("update", Null)
    /\ IF locationValidity(location)
       THEN locOut' = Publish(LocationUpdateSlots, location)
       ELSE locOut' = <<>>
    /\ nmeaOut' = <<>>
    /\ UNCHANGED fixVars

\* Variant: the Location's timestamp is not updated.
setTimestamp_deviceOnly(t) ==
    /\ FixOp("setTimestamp", t)
    /\ timestamp' = t
    /\ location' = location
    /\ lastTs' = t
    /\ Silent

setTimestamp(t) ==
    /\ FixOp("setTimestamp", t)
    /\ timestamp' = t
    /\ location' = Loc_timestamp(location, t)
    /\ lastTs' = t
    /\ Silent

invalidateLocation ==
    /\ FixOp("invalidateLocation", Null)
    /\ location' = Loc_invalidateLocation(location)
    /\ Silent
    /\ UNCHANGED <<timestamp, lastTs>>

\* Variant: delegates to the wrong Location method.
invalidateAltitude_wrongField ==
    /\ FixOp("invalidateAltitude", Null)
    /\ location' = Loc_invalidateSpeed(location)
    /\ Silent
    /\ UNCHANGED <<timestamp, lastTs>>

invalidateAltitude ==
    /\ FixOp("invalidateAltitude", Null)
    /\ location' = Loc_invalidateAltitude(location)
    /\ Silent
    /\ UNCHANGED <<timestamp, lastTs>>

invalidateSpeed ==
    /\ FixOp("invalidateSpeed", Null)
    /\ location' = Loc_invalidateSpeed(location)
    /\ Silent
    /\ UNCHANGED <<timestamp, lastTs>>

invalidateBearing ==
    /\ FixOp("invalidateBearing", Null)
    /\ location' = Loc_invalidateBearing(location)
    /\ Silent
    /\ UNCHANGED <<timestamp, lastTs>>

invalidateAccuracy ==
    /\ FixOp("invalidateAccuracy", Null)
    /\ location' = Loc_invalidateAccuracy(location)
    /\ Silent
    /\ UNCHANGED <<timestamp, lastTs>>

setLocation(latitude, longitude) ==
    /\ FixOp("setLocation", <<latitude, longitude>>)
    /\ location' = Loc_longitude(Loc_latitude(location, latitude), longitude)
    /\ Silent
    /\ UNCHANGED <<timestamp, lastTs>>

setAltitude(altitude) ==
    /\ FixOp("setAltitude", altitude)
    /\ location' = Loc_altitude(location, altitude)
    /\ Silent
    /\ UNCHANGED <<timestamp, lastTs>>

setSpeed(speed) ==
    /\ FixOp("setSpeed", speed)
    /\ location' = Loc_speed(location, speed)
    /\ Silent
    /\ UNCHANGED <<timestamp, lastTs>>

setBearing(bearing) ==
    /\ FixOp("setBearing", bearing)
    /\ location' = Loc_bearing(location, bearing)
    /\ Silent
    /\ UNCHANGED <<timestamp, lastTs>>

setAccuracy(accuracy) ==
    /\ FixOp("setAccuracy", accuracy)
    /\ location' = Loc_accuracy(location, accuracy)
    /\ Silent
    /\ UNCHANGED <<timestamp, lastTs>>

\* Variant: NMEA is published only while the fix is valid.
emitNmea_gated(nmea) ==
    /\ FixOp("emitNmea", nmea)
    /\ IF locationValidity(location)
       THEN nmeaOut' = Publish(OnNmeaSlots, <<timestamp, nmea>>)
       ELSE nmeaOut' = <<>>
    /\ locOut' = <<>>
    /\ UNCHANGED fixVars

emitNmea(nmea) ==
    /\ FixOp("emitNmea", nmea)
    /\ nmeaOut' = Publish(OnNmeaSlots, <<timestamp, nmea>>)
    /\ locOut' = <<>>
    /\ UNCHANGED fixVars

NextFix ==
    \/ update
    \/ \E t \in Times : setTimestamp(t)
    \/ invalidateLocation
    \/ invalidateAltitude
    \/ invalidateSpeed
    \/ invalidateBearing
    \/ invalidateAccuracy
    \/ \E la \in Vals, lo \in Vals : setLocation(la, lo)
    \/ \E v \in Vals : setAltitude(v)
    \/ \E v \in Vals : setSpeed(v)
    \/ \E v \in Vals : setBearing(v)
    \/ \E v \in Vals : setAccuracy(v)
    \/ \E n \in Nmeas : emitNmea(n)

SpecFix == Init /\ [][NextFix]_vars

\* ------------------------------------- a navigation session, two threads
\* The device after its wiring: setStream(s1); setDecoder(d1);
\* connectStreamToDecoder().  From here the command thread runs start() and
\* stop() statement by statement while the stream's reader thread delivers
\* bytes: the decoder's onNewBytes runs on the reader thread and calls the
\* device's fix assembly methods.  AbstractDevice holds no lock, so the steps
\* of the two threads interleave freely.
InitWired ==
    /\ stream = "s1"
    /\ decoder = "d1"
    /\ timestamp \in 0..MaxTime
    /\ location = NewLocation
    /\ reading = [s \in Streams |-> FALSE]
    /\ started = [d \in Decoders |-> FALSE]
    /\ slots = [s \in Streams |-> IF s = "s1" THEN Connect(<<>>, "d1") ELSE <<>>]
    /\ wakeCount = 0
    /\ pc = "ready"
    /\ ret = NoRet
    /\ trace = <<>>
    /\ cmdFrom = "Idle"
    /\ lastOp = "connectStreamToDecoder"
    /\ lastArg = Null
    /\ lastTs = NoTime
    /\ nmeaOut = <<>>
    /\ locOut = <<>>
    /\ rx = [d \in Decoders |-> 0]
    /\ rpc = "idle"

\* The reader thread enters the decoder's onNewBytes: the stream is reading
\* and publishes a chunk to its connected slots.
onNewBytes_begin(s) ==
    /\ rpc = "idle"
    /\ pc # "crashed"
    /\ reading[s]
    /\ rx' = Deliveries(s)
    /\ rpc' = IF \E d \in Decoders : Deliveries(s)[d] > 0 THEN "onNewBytes" ELSE "idle"
    /\ lastOp' = "deliver" /\ lastArg' = s
    /\ nmeaOut' = <<>> /\ locOut' = <<>>
    /\ UNCHANGED <<devVars, cmdVars, fixVars>>

\* A device method called by the decoder from inside onNewBytes.
InChain(method) ==
    /\ rpc = "onNewBytes"
    /\ pc # "crashed"
    /\ method

onNewBytes_end ==
    /\ rpc = "onNewBytes"
    /\ pc # "crashed"
    /\ rpc' = "idle"
    /\ UNCHANGED <<devVars, cmdVars, fixVars, lastOp, lastArg, nmeaOut, locOut, rx>>

NextSession ==
    \/ Start_acquireWakelock
    \/ Start_requestUtcTime
    \/ Start_decoderStart
    \/ Start_streamStartReading
    \/ Start_return
    \/ Stop_streamStopReading
    \/ Stop_decoderStop
    \/ Stop_releaseWakelock
    \/ Stop_return
    \/ \E s \in Streams : onNewBytes_begin(s)
    \/ \E t \in Times : InChain(setTimestamp(t))
    \/ \E la \in Vals, lo \in Vals : InChain(setLocation(la, lo))
    \/ InChain(invalidateLocation)
    \/ \E v \in Vals : InChain(setSpeed(v))
    \/ InChain(invalidateSpeed)
    \/ InChain(update)
    \/ \E n \in Nmeas : InChain(emitNmea(n))
    \/ onNewBytes_end

SpecSession == InitWired /\ [][NextSession]_vars

\* ================================================================ claims
IsPrefix(p, q) == Len(p) <= Len(q) /\ p = SubSeq(q, 1, Len(p))

StartOrder == <<"acquireWakelock", "requestUtcTime", "decoderStart", "streamStartReading">>
StopOrder == <<"streamStopReading", "decoderStop", "releaseWakelock">>

Attached == stream # Null /\ decoder # Null
Returned(op) == lastOp = op /\ pc = "ready"

\* C1: a start begun in Idle with stream and decoder attached issues
\* acquireWakelock, requestUtcTime, decoder start, stream startReading in
\* exactly this order (at every intermediate point the calls made so far are
\* a prefix of that order), then returns 0 with the orchestrator Navigating.
C1_StartSequence ==
    (lastOp = "start" /\ cmdFrom = "Idle" /\ Attached) =>
        /\ IsPrefix(trace, StartOrder)
        /\ pc # "crashed"
        /\ pc = "ready" => (trace = StartOrder /\ ret = Success /\ Navigating)

C1_Witness ==
    /\ Returned("start") /\ cmdFrom = "Idle" /\ Attached
    /\ trace = StartOrder /\ Navigating

\* C2: a stop begun in Navigating issues stream stopReading, decoder stop,
\* releaseWakelock in exactly this order, then returns 0 with the
\* orchestrator Idle; the wake lock is still held while the stream is
\* reading or the decoder is started.
C2_StopSequence ==
    (lastOp = "stop" /\ cmdFrom = "Navigating") =>
        /\ IsPrefix(trace, StopOrder)
        /\ pc # "crashed"
        /\ (reading[stream] \/ started[decoder]) => Len(trace) < Len(StopOrder)
        /\ pc = "ready" => (trace = StopOrder /\ ret = Success /\ Idle)

C2_Witness ==
    /\ Returned("stop") /\ cmdFrom = "Navigating"
    /\ trace = StopOrder /\ Idle /\ Attached

\* C3: a start invoked while the stream or the decoder is unset makes none
\* of the four external calls, leaves the orchestrator Idle and returns a
\* failure code.
C3_StartWithoutPrerequisite ==
    (lastOp = "start" /\ ~Attached) =>
        /\ trace = <<>>
        /\ Idle
        /\ pc = "ready" => ret # Success

\* C4: a location update is published only by update() and only when the
\* in-progress Location's latitude/longitude validity is true; every
\* published Location has valid latitude/longitude.
C4_MinimalValidityGating ==
    /\ \A i \in 1..Len(locOut) : locOut[i].hasLatLong
    /\ locOut # <<>> => (lastOp = "update" /\ location.hasLatLong)

C4_Witness ==
    /\ lastOp = "update" /\ locOut = <<>>
    /\ ~location.hasLatLong
    /\ location.hasAltitude /\ location.hasSpeed
    /\ location.hasBearing /\ location.hasAccuracy

\* C5: a start invoked while Navigating makes no external call (no second
\* wake lock acquisition, UTC request, decoder start or stream start) and
\* returns a failure code.
C5_StartWhileNavigating ==
    (lastOp = "start" /\ cmdFrom = "Navigating") =>
        /\ trace = <<>>
        /\ pc = "ready" => ret # Success

\* C6: a stop invoked while Idle makes no external call (no stopReading, no
\* decoder stop, no wake lock release) and returns 0.
C6_StopWhileIdle ==
    (lastOp = "stop" /\ cmdFrom = "Idle") =>
        /\ trace = <<>>
        /\ pc = "ready" => ret = Success

\* C7: every emitNmea(nmea) publishes exactly one NMEA event carrying the
\* orchestrator's timestamp (the argument of the last setTimestamp when
\* there was one) and nmea, whatever the lat/long validity, publishes no
\* location and changes no Location field.
C7_NmeaPassThrough ==
    /\ [](lastOp = "emitNmea" =>
            /\ nmeaOut = << <<timestamp, lastArg>> >>
            /\ locOut = <<>>
            /\ lastTs # NoTime => nmeaOut[1][1] = lastTs)
    /\ [][lastOp' = "emitNmea" => location' = location]_vars

C7_Witness ==
    /\ lastOp = "emitNmea" /\ Len(nmeaOut) = 1
    /\ ~location.hasLatLong
    /\ lastTs # NoTime

\* C8: connectStreamToDecoder with the stream or the decoder unset adds no
\* connection; with both set it appends one connection from the stream's
\* onNewBytes to the attached decoder; in both cases stream, decoder,
\* Location and lifecycle state are unchanged.
C8_ConnectGuard ==
    [][lastOp' = "connectStreamToDecoder" =>
         /\ IF Attached
            THEN slots' = [slots EXCEPT ![stream] = Append(@, decoder)]
            ELSE slots' = slots
         /\ UNCHANGED <<stream, decoder, location, timestamp, reading,
                        started, wakeCount, pc>>]_vars

C8_Witness ==
    /\ lastOp = "connectStreamToDecoder"
    /\ stream # Null /\ decoder = Null
    /\ slots[stream] # <<>>

\* C9: each invalidateX clears the validity flag of X and leaves the
\* validity flag and value of every other field, and both timestamps,
\* unchanged.
SameExcept(l1, l2, F) == \A f \in (DOMAIN l1) \ F : l1[f] = l2[f]

InvalidatedOnly(op, flag, own) ==
    lastOp' = op =>
        /\ ~location'[flag]
        /\ SameExcept(location, location', {flag} \cup own)
        /\ timestamp' = timestamp

C9_FieldIndependence ==
    [][/\ InvalidatedOnly("invalidateLocation", "hasLatLong", {"latitude", "longitude"})
       /\ InvalidatedOnly("invalidateAltitude", "hasAltitude", {"altitude"})
       /\ InvalidatedOnly("invalidateSpeed", "hasSpeed", {"speed"})
       /\ InvalidatedOnly("invalidateBearing", "hasBearing", {"bearing"})
       /\ InvalidatedOnly("invalidateAccuracy", "hasAccuracy", {"accuracy"})]_vars

C9_Witness ==
    /\ lastOp = "invalidateAltitude"
    /\ ~location.hasAltitude
    /\ location.hasLatLong /\ location.hasSpeed
    /\ location.hasBearing /\ location.hasAccuracy
    /\ location.speed # 0 /\ location.timestamp # 0

\* C10: there is at most one connection from a stream's onNewBytes to the
\* attached decoder, and a delivered chunk reaches each decoder's
\* onNewBytes at most once.
C10_SingleConnection ==
    /\ Attached => CountIn(slots[stream], decoder) <= 1
    /\ \A d \in Decoders : rx[d] <= 1

\* C11: the reader thread is never inside the byte-arrival chain (decoder
\* onNewBytes and the device methods it calls) while the command thread is
\* at the decoder start/stop step of start() or stop().
C11_MutualExclusion ==
    ~(rpc = "onNewBytes" /\ pc \in {"start_decoderStart", "stop_decoderStop"})

\* C12: once stop() has returned and until the next start() begins, no step
\* publishes a location update or an NMEA event.
Stopped == pc = "ready" /\ trace = StopOrder

C12_StopEffective ==
    [][(Stopped /\ lastOp' \in {"update", "emitNmea"}) =>
          (nmeaOut' = <<>> /\ locOut' = <<>>)]_vars

\* C13: every update() made while lat/long is valid delivers exactly one
\* location update, carrying the in-progress Location as it is at that call;
\* made while lat/long is invalid it delivers none; in both cases update()
\* leaves the in-progress Location and the timestamp unchanged.
C13_ExactlyOneLocationUpdate ==
    /\ [](lastOp = "update" =>
            locOut = IF location.hasLatLong THEN <<location>> ELSE <<>>)
    /\ [][lastOp' = "update" =>
            (location' = location /\ timestamp' = timestamp)]_vars

C13_Witness ==
    /\ lastOp = "update"
    /\ Len(locOut) = 1 /\ locOut[1] = location
    /\ location.hasLatLong /\ location.latitude # 0
    /\ location.hasSpeed /\ ~location.hasAltitude

\* C14: the number of wake lock acquisitions minus releases is always 0 or
\* 1; between commands it is 1 when the orchestrator is Navigating and 0
\* when it is Idle.
C14_WakeLockBalance ==
    /\ wakeCount \in {0, 1}
    /\ (pc = "ready" /\ Navigating) => wakeCount = 1
    /\ (pc = "ready" /\ Idle) => wakeCount = 0

C16_TimestampConsistency ==
    /\ [](lastTs # NoTime =>
            /\ timestamp = lastTs
            /\ location.timestamp = lastTs
            /\ \A i \in 1..Len(nmeaOut) : nmeaOut[i][1] = location.timestamp
            /\ \A i \in 1..Len(locOut) : locOut[i].timestamp = timestamp)
    /\ [][(pc' # pc \/ rpc' # rpc \/ lastOp' # "setTimestamp") =>
            /\ timestamp' = timestamp
            /\ location'.timestamp = location.timestamp]_vars

C16_Witness ==
    /\ lastTs # NoTime
    /\ lastOp = "emitNmea" /\ Len(nmeaOut) = 1
    /\ nmeaOut[1][1] = lastTs
    /\ location.timestamp = lastTs
    /\ location.hasLatLong

\* C17: no step of start() or stop() changes the in-progress Location or the
\* orchestrator's timestamp, and update() publishes a valid fix whatever the
\* session it was assembled in.
C17_FixSurvivesSession ==
    /\ [][pc' # pc => (location' = location /\ timestamp' = timestamp)]_vars
    /\ [](lastOp = "update" /\ location.hasLatLong => locOut # <<>>)

C17_Witness ==
    /\ pc = "start_decoderStart" /\ cmdFrom = "Idle"
    /\ rpc = "idle"
    /\ location.hasLatLong /\ location.hasSpeed
    /\ lastTs # NoTime

====
